---- MODULE Spec2Model ----
(***************************************************************************)
(* Bacterial bomb agent-based model: the agents (particles), the wind and  *)
(* particle fall settings, the environments, the Model that runs the       *)
(* simulation and the Controller handlers that drive it.                   *)
(*                                                                         *)
(* random() * 100 is a real number in [0, 100).  Drawn values are kept in  *)
(* half-percent units: the value u stands for the real number u / 2, and   *)
(* a comparison  value <= threshold  of the code reads  u <= 2 * threshold.*)
(***************************************************************************)
EXTENDS Integers, Sequences, FiniteSets, TLC

VARIABLES
    parameters,                 \* Model._parameters
    agents,                     \* Model._agents
    result_environment,         \* Model._result_environment
    pc,                         \* where the program is: idle, or inside run()
    agent_index,                \* run(): the agent of the for loop (1-based)
    iteration_count,            \* run(): iteration_count of the current agent
    broke,                      \* run(): the while loop was left by break
    num_particles_still_in_air, \* run(): local counter
    max_iteration_count,        \* run(): local counter
    outcome,                    \* how the last run() ended: none, returned, raised
    rng_calls,                  \* random() calls made by the last step
    alerted,                    \* the last Controller handler showed an alert
    last_call,                  \* the handler or method that ran last
    descended,                  \* history: the agents some fall() has lowered
    call,                       \* the last call: its arguments and its result
    positions,                  \* the Position objects, by object identity
    written,                    \* what the last step wrote to a file
    rows                        \* the row lists of a plane, by object identity

vars == << parameters, agents, result_environment, pc, agent_index,
           iteration_count, broke, num_particles_still_in_air,
           max_iteration_count, outcome, rng_calls, alerted, last_call,
           descended, call, positions, written, rows >>

----------------------------------------------------------------------------
(* Bounds of the model *)

MaxBuildingHeight == 3
MaxDrift == 2
MaxRise == 1
MaxRows == 3
MaxCell == 2

\* Percentages the settings are built from, and the values random() * 100
\* takes (in half-percent units: 0.0, 0.5, 50.0, 50.5, 99.5).
Percentages == {0, 50, 100}
RandomValues == {0, 1, 100, 101, 199}

\* Python's None
None == [ none |-> TRUE ]

----------------------------------------------------------------------------
(* agentframework: program constants *)

DEFAULT_BOMB_POSITION_MARK == 255

----------------------------------------------------------------------------
(* agentframework.ParticleFallSettings *)

\* (a variant: only a sum above 100 is refused)
ParticleFallSettings_raises_above(up, down, no_change) ==
    up + down + no_change > 100

\* __init__ raises when the percentages do not add up to 100
ParticleFallSettings_raises(up, down, no_change) ==
    up + down + no_change # 100

ParticleFallSettings(up, down, no_change) ==
    [ up_percentage        |-> up,
      down_percentage      |-> down,
      no_change_percentage |-> no_change,
      up_threshold_mark    |-> up,
      down_threshold_mark  |-> up + down ]

\* (a variant: the thresholds are compared with < instead of <=)
ParticleFallSettings_get_next_strict(settings, value) ==
    IF value < 2 * settings.up_threshold_mark THEN "UP"
    ELSE IF value < 2 * settings.down_threshold_mark THEN "DOWN"
    ELSE "NONE"

ParticleFallSettings_get_next(settings, value) ==
    IF value <= 2 * settings.up_threshold_mark THEN "UP"
    ELSE IF value <= 2 * settings.down_threshold_mark THEN "DOWN"
    ELSE "NONE"

----------------------------------------------------------------------------
(* agentframework.WindSettings *)

WindSettings_raises(north, east, south, west) ==
    north + east + south + west # 100

WindSettings(north, east, south, west) ==
    [ north_percentage           |-> north,
      east_percentage            |-> east,
      south_percentage           |-> south,
      west_percentage            |-> west,
      north_percentage_threshold |-> north,
      east_percentage_threshold  |-> north + east,
      south_percentage_threshold |-> north + east + south ]

WindSettings_get_next(settings, value) ==
    IF value <= 2 * settings.north_percentage_threshold THEN "NORTH"
    ELSE IF value <= 2 * settings.east_percentage_threshold THEN "EAST"
    ELSE IF value <= 2 * settings.south_percentage_threshold THEN "SOUTH"
    ELSE "WEST"

----------------------------------------------------------------------------
(* agentframework.Position *)

Position(x, y) == [ x |-> x, y |-> y ]

Position_create_from(original) == Position(original.x, original.y)

\* The number of move() calls between two positions, at least
Abs(n) == IF n < 0 THEN 0 - n ELSE n

Distance(p, q) == Abs(p.x - q.x) + Abs(p.y - q.y)

----------------------------------------------------------------------------
(* agentframework.Agent *)

Agent(particle_fall_settings, wind_settings, start_position, building_height) ==
    [ particle_fall_settings |-> particle_fall_settings,
      wind_settings          |-> wind_settings,
      position               |-> Position_create_from(start_position),
      building_height        |-> building_height,
      height                 |-> building_height ]

\* (a variant: the comparison lets height 0 through)
Agent_can_fall_inclusive(agent) == agent.height >= 0

Agent_can_fall(agent) == agent.height > 0

\* (a variant: a grounded agent is not moved)
Agent_move_only_airborne(agent, value) ==
    LET direction == WindSettings_get_next(agent.wind_settings, value)
        p == agent.position
    IN  IF agent.height > 0
        THEN [ agent EXCEPT !.position =
                 IF direction = "NORTH" THEN Position(p.x, p.y + 1)
                 ELSE IF direction = "EAST" THEN Position(p.x + 1, p.y)
                 ELSE IF direction = "SOUTH" THEN Position(p.x, p.y - 1)
                 ELSE Position(p.x - 1, p.y) ]
        ELSE agent

\* (a variant: SOUTH is applied to x instead of y)
Agent_move_south_on_x(agent, value) ==
    LET direction == WindSettings_get_next(agent.wind_settings, value)
        p == agent.position
    IN  [ agent EXCEPT !.position =
            IF direction = "NORTH" THEN Position(p.x, p.y + 1)
            ELSE IF direction = "EAST" THEN Position(p.x + 1, p.y)
            ELSE IF direction = "SOUTH" THEN Position(p.x - 1, p.y)
            ELSE Position(p.x - 1, p.y) ]

\* (a variant: WEST leaves the position as it is)
Agent_move_no_west(agent, value) ==
    LET direction == WindSettings_get_next(agent.wind_settings, value)
        p == agent.position
    IN  [ agent EXCEPT !.position =
            IF direction = "NORTH" THEN Position(p.x, p.y + 1)
            ELSE IF direction = "EAST" THEN Position(p.x + 1, p.y)
            ELSE IF direction = "SOUTH" THEN Position(p.x, p.y - 1)
            ELSE p ]

\* move(): one draw from the wind settings, always
Agent_move(agent, value) ==
    LET direction == WindSettings_get_next(agent.wind_settings, value)
        p == agent.position
    IN  [ agent EXCEPT !.position =
            IF direction = "NORTH" THEN Position(p.x, p.y + 1)
            ELSE IF direction = "EAST" THEN Position(p.x + 1, p.y)
            ELSE IF direction = "SOUTH" THEN Position(p.x, p.y - 1)
            ELSE Position(p.x - 1, p.y) ]

\* (a variant: the descent is forced only two below the building height)
Agent_fall_branch_late(agent) ==
    IF agent.height > 0
    THEN IF agent.height < agent.building_height - 1 THEN "forced" ELSE "sampled"
    ELSE "none"

\* (a variant: an airborne agent always samples)
Agent_fall_branch_always_sampled(agent) ==
    IF agent.height > 0 THEN "sampled" ELSE "none"

\* (a variant: the comparison with the building height is reversed)
Agent_fall_branch_reversed(agent) ==
    IF agent.height > 0
    THEN IF agent.height > agent.building_height THEN "forced" ELSE "sampled"
    ELSE "none"

\* The branch fall() takes: none (the agent cannot fall), forced (below the
\* building height) or sampled (the else branch, which calls get_next())
Agent_fall_branch(agent) ==
    IF Agent_can_fall(agent)
    THEN IF agent.height < agent.building_height THEN "forced" ELSE "sampled"
    ELSE "none"

\* (a variant: fall() does not check can_fall())
Agent_fall_unchecked(agent, value) ==
    IF agent.height < agent.building_height
    THEN [ agent EXCEPT !.height = agent.height - 1 ]
    ELSE LET fall == ParticleFallSettings_get_next(
                         agent.particle_fall_settings, value)
         IN  IF fall = "UP" THEN [ agent EXCEPT !.height = agent.height + 1 ]
             ELSE IF fall = "DOWN" THEN [ agent EXCEPT !.height = agent.height - 1 ]
             ELSE agent

\* (a variant: the descent also lowers the building height)
Agent_fall_lowers_building(agent, value) ==
    IF Agent_fall_branch(agent) = "forced"
    THEN [ agent EXCEPT !.height = agent.height - 1 ]
    ELSE IF Agent_fall_branch(agent) = "sampled"
    THEN LET fall == ParticleFallSettings_get_next(
                         agent.particle_fall_settings, value)
         IN  IF fall = "UP" THEN [ agent EXCEPT !.height = agent.height + 1 ]
             ELSE IF fall = "DOWN"
             THEN [ agent EXCEPT !.height = agent.height - 1,
                                 !.building_height = agent.height - 1 ]
             ELSE agent
    ELSE agent

Agent_fall(agent, value) ==
    IF Agent_fall_branch(agent) = "forced"
    THEN [ agent EXCEPT !.height = agent.height - 1 ]
    ELSE IF Agent_fall_branch(agent) = "sampled"
    THEN LET fall == ParticleFallSettings_get_next(
                         agent.particle_fall_settings, value)
         IN  IF fall = "UP" THEN [ agent EXCEPT !.height = agent.height + 1 ]
             ELSE IF fall = "DOWN" THEN [ agent EXCEPT !.height = agent.height - 1 ]
             ELSE agent
    ELSE agent

\* random() calls made by one fall()
Agent_fall_rng_calls(agent) ==
    IF Agent_fall_branch(agent) = "sampled" THEN 1 ELSE 0

----------------------------------------------------------------------------
(* agentframework.Environment *)

\* Python's list[i]: a negative index counts from the end of the list, and
\* an index outside -len .. len-1 raises IndexError.
IndexError(len, i) == i >= len \/ i < -len

ListIndex(len, i) == IF i < 0 THEN len + i ELSE i

\* A plane is a sequence of rows; the code's plane[y][x] is plane[y+1][x+1].
Environment(plane) ==
    [ plane  |-> plane,
      height |-> Len(plane),
      width  |-> Len(plane[1]) ]

Environment_contains(environment, position) ==
    position.y < environment.height /\ position.x < environment.width

Environment_create_from_size(width, height, initial_value) ==
    Environment([ i \in 1..height |-> [ j \in 1..width |-> initial_value ] ])

\* Python values as Environment.__init__ may be given them: a list of
\* items, or a value that is not a list
list(items) == [ type |-> "list", items |-> items ]

NotAList == [ type |-> "int" ]

isinstance_list(value) == value.type = "list"

\* Environment.__init__ on such a value: the check of the plane ...
Environment_new_raises(plane) ==
    \/ ~isinstance_list(plane)
    \/ Len(plane.items) <= 0
    \/ ~isinstance_list(plane.items[1])

\* ... and the properties it sets
Environment_new(plane) ==
    [ plane  |-> plane,
      height |-> Len(plane.items),
      width  |-> Len(plane.items[1].items) ]

\* Rows by identity.  A plane is a list of row lists, and a row list is a
\* mutable object:  plane[y][x] += 1  assigns to a cell of the row object
\* plane[y].  Here a store of rows holds these objects, an object's identity
\* is its index, and the plane of an environment is a list of identities.

\* (a variant: one row object is appended height times)
Environment_create_from_size_shared_row(width, height, initial_value) ==
    [ rows        |-> << [ j \in 1..width |-> initial_value ] >>,
      environment |-> [ plane  |-> [ i \in 1..height |-> 1 ],
                        height |-> height,
                        width  |-> width ] ]

\* create_from_size(): every pass of the outer loop builds a new row list
Environment_create_from_size_rows(width, height, initial_value) ==
    [ rows        |-> [ i \in 1..height |-> [ j \in 1..width |-> initial_value ] ],
      environment |-> [ plane  |-> [ i \in 1..height |-> i ],
                        height |-> height,
                        width  |-> width ] ]

\* The increment  environment.plane[y][x] += 1  on the row objects
PlaneIncrement_rows(store, environment, x, y) ==
    [ store EXCEPT ![environment.plane[y + 1]][x + 1] = @ + 1 ]

\* The plane as the program reads it: plane[y][x] is PlaneOf(...)[y+1][x+1]
PlaneOf(store, environment) ==
    [ r \in 1..environment.height |-> store[environment.plane[r]] ]

----------------------------------------------------------------------------
(* agentframework.BombEnvironment *)

BombEnvironment(plane, bomb_position) ==
    [ plane         |-> plane,
      height        |-> Len(plane),
      width         |-> Len(plane[1]),
      bomb_position |-> bomb_position ]

\* The cells of the raster that hold the mark, as <<row_index, column_index>>
\* (0-based, as the reader loop counts them).
MarkedCells(raster, bomb_position_mark) ==
    { rc \in UNION { { r - 1 } \X (0..(Len(raster[r]) - 1)) : r \in DOMAIN raster } :
        raster[rc[1] + 1][rc[2] + 1] = bomb_position_mark }

\* The loop overwrites bomb_position at every marked cell: the last one in
\* reading order stays.
LastMarkedCell(raster, bomb_position_mark) ==
    CHOOSE rc \in MarkedCells(raster, bomb_position_mark) :
        \A other \in MarkedCells(raster, bomb_position_mark) :
            \/ other[1] < rc[1]
            \/ (other[1] = rc[1] /\ other[2] <= rc[2])

BombEnvironment_create_from_file_raises(raster, bomb_position_mark) ==
    MarkedCells(raster, bomb_position_mark) = {}

BombEnvironment_create_from_file(raster, bomb_position_mark) ==
    LET rc == LastMarkedCell(raster, bomb_position_mark)
    IN  BombEnvironment(raster, Position(rc[2], Len(raster) - rc[1]))

----------------------------------------------------------------------------
(* model.Parameters and model.Model *)

Parameters(fall_settings, wind_settings, environment, num, height, max_iterations) ==
    [ particle_fall_settings |-> fall_settings,
      wind_settings          |-> wind_settings,
      environment            |-> environment,
      num_of_particles       |-> num,
      building_height_metres |-> height,
      max_num_of_iterations  |-> max_iterations ]

\* (a variant: the agents are created on the ground)
Model_create_agents_grounded(params, num_of_agents) ==
    [ i \in 1..num_of_agents |->
        Agent(params.particle_fall_settings,
              params.wind_settings,
              params.environment.bomb_position,
              0) ]

Model_create_agents(params, num_of_agents) ==
    [ i \in 1..num_of_agents |->
        Agent(params.particle_fall_settings,
              params.wind_settings,
              params.environment.bomb_position,
              params.building_height_metres) ]

\* The increment  environment.plane[position.y][position.x] += 1
PlaneIncrement(plane, position) ==
    LET row == ListIndex(Len(plane), position.y) + 1
        col == ListIndex(Len(plane[row]), position.x) + 1
    IN  [ plane EXCEPT ![row][col] = @ + 1 ]

PlaneIncrement_raises(plane, position) ==
    \/ IndexError(Len(plane), position.y)
    \/ IndexError(Len(plane[ListIndex(Len(plane), position.y) + 1]), position.x)

\* The for loop of _get_particle_density_environment from agent k on;
\* the result says whether an increment raised.
RECURSIVE DensityLoop(_, _, _)
DensityLoop(environment, agent_list, k) ==
    IF k > Len(agent_list)
    THEN [ raised |-> FALSE, environment |-> environment ]
    ELSE IF Environment_contains(environment, agent_list[k].position)
    THEN IF PlaneIncrement_raises(environment.plane, agent_list[k].position)
         THEN [ raised |-> TRUE, environment |-> environment ]
         ELSE DensityLoop(
                [ environment EXCEPT !.plane =
                    PlaneIncrement(environment.plane, agent_list[k].position) ],
                agent_list, k + 1)
    ELSE DensityLoop(environment, agent_list, k + 1)

\* (a variant: the agents are counted on the plane of the bomb environment)
Model_get_particle_density_environment_on_bomb_plane(params, agent_list) ==
    DensityLoop(Environment(params.environment.plane), agent_list, 1)

Model_get_particle_density_environment(params, agent_list) ==
    DensityLoop(
        Environment_create_from_size(params.environment.width,
                                     params.environment.height, 0),
        agent_list, 1)

----------------------------------------------------------------------------
(* main.Controller: reading the entry fields of the view *)

\* int(text): the texts that parse, and the integer each one gives
IntRange == (0 - 200)..200

IntTexts == { ToString(n) : n \in IntRange }

IntOfText == [ text \in IntTexts |-> CHOOSE n \in IntRange : ToString(n) = text ]

int_raises(text) == text \notin IntTexts

int(text) == IntOfText[text]

Controller_get_percentage_integer_raises(percentage_text) ==
    \/ percentage_text = ""
    \/ int_raises(percentage_text)
    \/ int(percentage_text) < 0
    \/ int(percentage_text) > 100

Controller_get_percentage_integer(percentage_text) == int(percentage_text)

\* The entry fields of the view: wind = <<north, east, south, west>>,
\* fall = <<up, down, no_change>>, and the three counts, all as text.
Entries(wind, fall, num, height, max_iterations) ==
    [ wind                   |-> wind,
      fall                   |-> fall,
      num_of_particles       |-> num,
      building_height_metres |-> height,
      max_num_of_iterations  |-> max_iterations ]

\* (a variant: the sum of the wind percentages is not checked)
Controller_update_parameters_raises_no_wind_sum(entries) ==
    \/ \E i \in 1..4 : Controller_get_percentage_integer_raises(entries.wind[i])
    \/ int_raises(entries.max_num_of_iterations)
    \/ int(entries.max_num_of_iterations) < 0
    \/ \E i \in 1..3 : Controller_get_percentage_integer_raises(entries.fall[i])
    \/ int_raises(entries.num_of_particles)
    \/ int(entries.num_of_particles) < 0
    \/ int_raises(entries.building_height_metres)
    \/ int(entries.building_height_metres) < 0
    \/ int(entries.fall[1]) + int(entries.fall[2]) + int(entries.fall[3]) # 100

Controller_update_parameters_raises(entries) ==
    \/ \E i \in 1..4 : Controller_get_percentage_integer_raises(entries.wind[i])
    \/ int_raises(entries.max_num_of_iterations)
    \/ int(entries.max_num_of_iterations) < 0
    \/ \E i \in 1..3 : Controller_get_percentage_integer_raises(entries.fall[i])
    \/ int_raises(entries.num_of_particles)
    \/ int(entries.num_of_particles) < 0
    \/ int_raises(entries.building_height_metres)
    \/ int(entries.building_height_metres) < 0
    \/ int(entries.fall[1]) + int(entries.fall[2]) + int(entries.fall[3]) # 100
    \/ int(entries.wind[1]) + int(entries.wind[2]) + int(entries.wind[3])
         + int(entries.wind[4]) # 100

\* (a variant: the iteration cap is left as it was)
Model_update_parameters_partial(params, fall_settings, wind_settings, num, height, max_iterations) ==
    [ params EXCEPT
        !.particle_fall_settings = fall_settings,
        !.wind_settings          = wind_settings,
        !.num_of_particles       = num,
        !.building_height_metres = height ]

\* Model.update_parameters: the five values are replaced, the environment stays
Model_update_parameters(params, fall_settings, wind_settings, num, height, max_iterations) ==
    [ params EXCEPT
        !.particle_fall_settings = fall_settings,
        !.wind_settings          = wind_settings,
        !.num_of_particles       = num,
        !.building_height_metres = height,
        !.max_num_of_iterations  = max_iterations ]

\* The arguments Controller.update_parameters passes to
\* Model.update_parameters when it does not raise
Controller_update_parameters_arguments(entries) ==
    [ particle_fall_settings |->
        ParticleFallSettings(int(entries.fall[1]), int(entries.fall[2]),
                             int(entries.fall[3])),
      wind_settings |->
        WindSettings(int(entries.wind[1]), int(entries.wind[2]),
                     int(entries.wind[3]), int(entries.wind[4])),
      num_of_particles       |-> int(entries.num_of_particles),
      building_height_metres |-> int(entries.building_height_metres),
      max_num_of_iterations  |-> int(entries.max_num_of_iterations) ]

\* Controller._save_environment_as_text: a row is written cell by cell,
\* each as str(cell) and a space, and ended by a newline
RECURSIVE RowAsText(_)
RowAsText(row) ==
    IF row = << >> THEN "\n"
    ELSE ToString(Head(row)) \o " " \o RowAsText(Tail(row))

Controller_save_environment_as_text(environment) ==
    [ r \in DOMAIN environment.plane |-> RowAsText(environment.plane[r]) ]

\* (a variant: the result is written without the check for None)
Controller_save_model_unchecked(result, file_selected) ==
    IF file_selected
    THEN [ alerted |-> TRUE,
           written |-> IF result = None THEN << >>
                       ELSE Controller_save_environment_as_text(result) ]
    ELSE [ alerted |-> FALSE, written |-> None ]

\* Controller.save_model: what it writes, and whether it shows an alert
\* (the error when there is no result, the success message after writing)
Controller_save_model(result, file_selected) ==
    IF result = None
    THEN [ alerted |-> TRUE, written |-> None ]
    ELSE IF file_selected
    THEN [ alerted |-> TRUE,
           written |-> Controller_save_environment_as_text(result) ]
    ELSE [ alerted |-> FALSE, written |-> None ]

\* (a variant: the agents are left as they are)
Controller_reset_model_skipped(params, agent_list) == agent_list

\* Controller._reset_model(): Model.initialize() replaces the agents
Controller_reset_model(params, agent_list) ==
    Model_create_agents(params, params.num_of_particles)

----------------------------------------------------------------------------
(* Inputs of the program *)

\* Raster files: one column with the mark in the second row, and three
\* columns with the mark in the first row.
Rasters ==
    { << <<0>>, <<255>> >>,
      << <<0, 255, 0>>, <<0, 0, 0>> >> }

\* What the user may have typed into the entry fields when a handler runs:
\* every combination of these texts that update_parameters accepts ...
FallEntries ==
    { <<"0", "100", "0">>, <<"0", "0", "100">>, <<"100", "0", "0">> }

WindEntries ==
    { <<"100", "0", "0", "0">>, <<"0", "0", "50", "50">> }

CountEntries == { "1", "2" }

\* ... with counts of 1 and 2, with one of the three counts 0, and with
\* two particles released at height 0
AcceptedEntries ==
    { Entries(w, f, n, b, m) :
        w \in WindEntries, f \in FallEntries, n \in CountEntries,
        b \in CountEntries, m \in CountEntries }
    \cup { Entries(w, f, "0", "1", "1") : w \in WindEntries, f \in FallEntries }
    \cup { Entries(w, f, "1", "0", "1") : w \in WindEntries, f \in FallEntries }
    \cup { Entries(w, f, "1", "1", "0") : w \in WindEntries, f \in FallEntries }
    \cup { Entries(w, f, "2", "0", "1") : w \in WindEntries, f \in FallEntries }

\* ... and some it rejects, one for each check it makes.
RejectedEntries ==
    { Entries(<<"", "0", "0", "100">>, <<"0", "100", "0">>, "1", "1", "1"),
      Entries(<<"abc", "0", "0", "100">>, <<"0", "100", "0">>, "1", "1", "1"),
      Entries(<<"-50", "150", "0", "0">>, <<"0", "100", "0">>, "1", "1", "1"),
      Entries(<<"50", "0", "0", "0">>, <<"0", "100", "0">>, "1", "1", "1"),
      Entries(<<"100", "0", "0", "0">>, <<"50", "100", "0">>, "1", "1", "1"),
      Entries(<<"100", "0", "0", "0">>, <<"0", "100", "0">>, "-1", "1", "1"),
      Entries(<<"100", "0", "0", "0">>, <<"0", "100", "0">>, "many", "1", "1"),
      Entries(<<"100", "0", "0", "0">>, <<"0", "100", "0">>, "1", "-1", "1"),
      Entries(<<"100", "0", "0", "0">>, <<"0", "100", "0">>, "1", "1", "-1") }

AllEntries == AcceptedEntries \cup RejectedEntries

\* Controller.update_parameters on each of these entries: whether it raises,
\* and what it passes to Model.update_parameters when it does not
Controller_update_parameters ==
    [ entries \in AllEntries |->
        IF Controller_update_parameters_raises(entries)
        THEN [ raises |-> TRUE ]
        ELSE [ raises |-> FALSE,
               arguments |-> Controller_update_parameters_arguments(entries) ] ]

\* Model.update_parameters with the arguments of the Controller
Controller_model_update(params, arguments) ==
    Model_update_parameters(params,
        arguments.particle_fall_settings, arguments.wind_settings,
        arguments.num_of_particles, arguments.building_height_metres,
        arguments.max_num_of_iterations)

----------------------------------------------------------------------------
(* The program: main() builds Model(parameters) and the Controller; then   *)
(* the handlers of the Controller run one at a time.                       *)

\* Model.__init__, with parameters the Controller accepts
Init ==
    \E entries \in AllEntries, raster \in Rasters :
        /\ ~Controller_update_parameters[entries].raises
        /\ ~BombEnvironment_create_from_file_raises(raster, DEFAULT_BOMB_POSITION_MARK)
        /\ parameters = Controller_model_update(
               Parameters(None, None,
                   BombEnvironment_create_from_file(raster, DEFAULT_BOMB_POSITION_MARK),
                   0, 0, 0),
               Controller_update_parameters[entries].arguments)
        /\ agents = Model_create_agents(parameters, parameters.num_of_particles)
        /\ result_environment = None
        /\ pc = "idle"
        /\ agent_index = 0
        /\ iteration_count = 0
        /\ broke = FALSE
        /\ num_particles_still_in_air = 0
        /\ max_iteration_count = 0
        /\ outcome = "none"
        /\ rng_calls = 0
        /\ written = None
        /\ rows = << >>
        /\ alerted = FALSE
        /\ last_call = "Model"
        /\ descended = {}
        /\ call = None
        /\ positions = << >>

\* Controller.run_model(): _reset_model() (Model.initialize()), then
\* Model.run() up to its for loop
RunModel ==
    /\ pc = "idle"
    /\ agents' = Controller_reset_model(parameters, agents)
    /\ result_environment' = None
    /\ pc' = "run"
    /\ agent_index' = 1
    /\ iteration_count' = 0
    /\ broke' = FALSE
    /\ num_particles_still_in_air' = 0
    /\ max_iteration_count' = 0
    /\ outcome' = "none"
    /\ rng_calls' = 0
    /\ written' = None
    /\ UNCHANGED rows
    /\ alerted' = FALSE
    /\ last_call' = "run_model"
    /\ descended' = {}
    /\ call' = None
    /\ UNCHANGED << parameters, positions >>

\* Model.run(): one pass of the while loop for the current agent: move(),
\* fall(), the count and the check of the iteration cap.
RunIterate ==
    /\ pc = "run"
    /\ agent_index <= Len(agents)
    /\ ~broke
    /\ Agent_can_fall(agents[agent_index])
    /\ \E wind_value \in RandomValues, fall_value \in RandomValues :
        LET moved == Agent_move(agents[agent_index], wind_value)
        IN  /\ agents' = [ agents EXCEPT ![agent_index] = Agent_fall(moved, fall_value) ]
            /\ rng_calls' = 1 + Agent_fall_rng_calls(moved)
            /\ written' = None
            /\ UNCHANGED rows
            /\ descended' = IF Agent_fall(moved, fall_value).height < moved.height
                            THEN descended \cup { agent_index } ELSE descended
    /\ iteration_count' = iteration_count + 1
    /\ IF iteration_count' >= parameters.max_num_of_iterations
       THEN /\ num_particles_still_in_air' = num_particles_still_in_air + 1
            /\ broke' = TRUE
       ELSE UNCHANGED << num_particles_still_in_air, broke >>
    /\ UNCHANGED << parameters, result_environment, pc, agent_index,
                    max_iteration_count, outcome, alerted, last_call,
                    call, positions >>

\* Model.run(): the while loop of the current agent is over; the maximum is
\* updated and the for loop goes to the next agent.
RunNextAgent ==
    /\ pc = "run"
    /\ agent_index <= Len(agents)
    /\ broke \/ ~Agent_can_fall(agents[agent_index])
    /\ max_iteration_count' =
         IF iteration_count > max_iteration_count
         THEN iteration_count ELSE max_iteration_count
    /\ agent_index' = agent_index + 1
    /\ iteration_count' = 0
    /\ broke' = FALSE
    /\ rng_calls' = 0
    /\ written' = None
    /\ UNCHANGED rows
    /\ UNCHANGED << parameters, agents, result_environment, pc,
                    num_particles_still_in_air, outcome, alerted, last_call,
                    descended, call, positions >>

\* Model.run() after the for loop: the density environment is built,
\* stored and returned, unless building it raises.
RunAggregate ==
    /\ pc = "run"
    /\ agent_index > Len(agents)
    /\ LET density == Model_get_particle_density_environment(parameters, agents)
       IN  IF density.raised
           THEN /\ outcome' = "raised"
                /\ UNCHANGED result_environment
           ELSE /\ outcome' = "returned"
                /\ result_environment' = density.environment
    /\ pc' = "idle"
    /\ agent_index' = 0
    /\ iteration_count' = 0
    /\ num_particles_still_in_air' = 0
    /\ max_iteration_count' = 0
    /\ rng_calls' = 0
    /\ written' = None
    /\ UNCHANGED rows
    /\ UNCHANGED << parameters, agents, broke, alerted, last_call,
                    descended, call, positions >>

\* Controller.load_parameters(): update_parameters() and _reset_model(), or
\* an alert when update_parameters() raises.
LoadParameters ==
    /\ pc = "idle"
    /\ \E entries \in AllEntries :
        IF Controller_update_parameters[entries].raises
        THEN /\ alerted' = TRUE
             /\ call' = [ entries |-> entries, returned |-> FALSE ]
             /\ UNCHANGED << parameters, agents, result_environment, descended >>
        ELSE /\ parameters' = Controller_model_update(parameters,
                                  Controller_update_parameters[entries].arguments)
             /\ agents' = Controller_reset_model(parameters', agents)
             /\ result_environment' = None
             /\ descended' = {}
             /\ alerted' = FALSE
             /\ call' = [ entries |-> entries, returned |-> TRUE ]
    /\ rng_calls' = 0
    /\ written' = None
    /\ UNCHANGED rows
    /\ last_call' = "load_parameters"
    /\ UNCHANGED << pc, agent_index, iteration_count, broke,
                    num_particles_still_in_air, max_iteration_count, outcome,
                    positions >>

\* Controller.save_model(): an alert when there is no result; otherwise the
\* file dialog, which gives a file or None, and the result written as text.
SaveModel ==
    /\ pc = "idle"
    /\ \E file_selected \in BOOLEAN :
        LET saved == Controller_save_model(result_environment, file_selected)
        IN  /\ alerted' = saved.alerted
            /\ written' = saved.written
            /\ UNCHANGED rows
    /\ rng_calls' = 0
    /\ call' = None
    /\ last_call' = "save_model"
    /\ UNCHANGED << parameters, agents, result_environment, pc, agent_index,
                    iteration_count, broke, num_particles_still_in_air,
                    max_iteration_count, outcome, descended, positions >>

Next ==
    \/ RunModel
    \/ RunIterate
    \/ RunNextAgent
    \/ RunAggregate
    \/ LoadParameters
    \/ SaveModel

Spec == Init /\ [][Next]_vars

\* run() is one call of a handler: once it has started, each of its steps
\* is taken.
FairSpec ==
    /\ Spec
    /\ WF_vars(RunIterate)
    /\ WF_vars(RunNextAgent)
    /\ WF_vars(RunAggregate)

----------------------------------------------------------------------------
(* The Model on its own: update_parameters(), initialize() and run() are   *)
(* called in any order, as the public methods of the class allow.          *)

\* The arguments update_parameters() is called with
ModelArguments ==
    { Controller_update_parameters[entries].arguments :
        entries \in { Entries(<<"0", "0", "50", "50">>, <<"0", "100", "0">>, n, "1", m) :
                        n \in CountEntries, m \in CountEntries } }

\* Model(parameters)
InitModel ==
    /\ \E arguments \in ModelArguments, raster \in Rasters :
        /\ parameters = Controller_model_update(
               Parameters(None, None,
                   BombEnvironment_create_from_file(raster, DEFAULT_BOMB_POSITION_MARK),
                   0, 0, 0),
               arguments)
        /\ agents = Model_create_agents(parameters, parameters.num_of_particles)
    /\ result_environment = None
    /\ pc = "idle"
    /\ agent_index = 0
    /\ iteration_count = 0
    /\ broke = FALSE
    /\ num_particles_still_in_air = 0
    /\ max_iteration_count = 0
    /\ outcome = "none"
    /\ rng_calls = 0
    /\ written = None
    /\ rows = << >>
    /\ alerted = FALSE
    /\ last_call = "Model"
    /\ descended = {}
    /\ call = None
    /\ positions = << >>

\* Model.update_parameters(...)
ModelUpdateParameters ==
    /\ pc = "idle"
    /\ \E arguments \in ModelArguments :
        /\ parameters' = Controller_model_update(parameters, arguments)
        /\ call' = [ arguments |-> arguments ]
    /\ rng_calls' = 0
    /\ written' = None
    /\ UNCHANGED rows
    /\ last_call' = "update_parameters"
    /\ UNCHANGED << agents, result_environment, pc, agent_index,
                    iteration_count, broke, num_particles_still_in_air,
                    max_iteration_count, outcome, alerted, descended, positions >>

\* Model.initialize()
ModelInitialize ==
    /\ pc = "idle"
    /\ agents' = Model_create_agents(parameters, parameters.num_of_particles)
    /\ result_environment' = None
    /\ descended' = {}
    /\ rng_calls' = 0
    /\ written' = None
    /\ UNCHANGED rows
    /\ call' = None
    /\ last_call' = "initialize"
    /\ UNCHANGED << parameters, pc, agent_index, iteration_count, broke,
                    num_particles_still_in_air, max_iteration_count, outcome,
                    alerted, positions >>

\* Model.run() up to its for loop, on the agents as they are; called while
\* the agents are within MaxDrift of the bomb and MaxRise of their building
\* height
\* (call keeps how the run() before this one ended)
ModelRun ==
    /\ pc = "idle"
    /\ \A i \in DOMAIN agents :
         /\ Distance(agents[i].position, parameters.environment.bomb_position)
              <= MaxDrift
         /\ agents[i].height <= agents[i].building_height + MaxRise
    /\ pc' = "run"
    /\ agent_index' = 1
    /\ iteration_count' = 0
    /\ broke' = FALSE
    /\ num_particles_still_in_air' = 0
    /\ max_iteration_count' = 0
    /\ outcome' = "none"
    /\ rng_calls' = 0
    /\ written' = None
    /\ UNCHANGED rows
    /\ call' = [ outcome |-> outcome ]
    /\ last_call' = "run"
    /\ UNCHANGED << parameters, agents, result_environment, alerted,
                    descended, positions >>

NextModel ==
    \/ ModelUpdateParameters
    \/ ModelInitialize
    \/ ModelRun
    \/ RunIterate
    \/ RunNextAgent
    \/ RunAggregate

SpecModel == InitModel /\ [][NextModel]_vars

----------------------------------------------------------------------------
(* The environment classes on their own, as their unit tests use them:     *)
(* Environment(plane) with any value, and BombEnvironment.create_from_file *)
(* with any raster of up to MaxRows rows.                                   *)

\* The sequences of at most n elements of a set
SeqsUpTo(set, n) == UNION { [ 1..k -> set ] : k \in 0..n }

\* What a plane may hold: rows of cells, of different lengths, and a value
\* that is not a list
PlaneItems ==
    { list(<< >>), list(<< 0 >>), list(<< 0, 0 >>), NotAList }

PlaneInputs ==
    { NotAList } \cup { list(items) : items \in SeqsUpTo(PlaneItems, MaxRows) }

\* The rows of a raster file, with and without the mark
RasterRows ==
    { << 0 >>, << 0, 0 >>, << DEFAULT_BOMB_POSITION_MARK >>,
      << 0, DEFAULT_BOMB_POSITION_MARK >>,
      << DEFAULT_BOMB_POSITION_MARK, DEFAULT_BOMB_POSITION_MARK >> }

RasterInputs == SeqsUpTo(RasterRows, MaxRows)

InitEnvironment ==
    /\ call = None
    /\ parameters = None
    /\ agents = << >>
    /\ result_environment = None
    /\ pc = "idle"
    /\ agent_index = 0
    /\ iteration_count = 0
    /\ broke = FALSE
    /\ num_particles_still_in_air = 0
    /\ max_iteration_count = 0
    /\ outcome = "none"
    /\ rng_calls = 0
    /\ written = None
    /\ rows = << >>
    /\ alerted = FALSE
    /\ last_call = "none"
    /\ descended = {}
    /\ positions = << >>

\* Environment(plane)
NewEnvironment ==
    /\ \E plane \in PlaneInputs :
        call' = IF Environment_new_raises(plane)
                THEN [ arguments |-> << plane >>, raised |-> TRUE ]
                ELSE [ arguments   |-> << plane >>,
                       raised      |-> FALSE,
                       environment |-> Environment_new(plane) ]
    /\ last_call' = "Environment"
    /\ rng_calls' = 0
    /\ written' = None
    /\ UNCHANGED rows
    /\ UNCHANGED << parameters, agents, result_environment, pc, agent_index,
                    iteration_count, broke, num_particles_still_in_air,
                    max_iteration_count, outcome, alerted, descended, positions >>

\* BombEnvironment.create_from_file(file_path) on a file that holds raster
CreateFromFile ==
    /\ \E raster \in RasterInputs :
        call' = IF BombEnvironment_create_from_file_raises(
                       raster, DEFAULT_BOMB_POSITION_MARK)
                THEN [ arguments |-> << raster >>, raised |-> TRUE ]
                ELSE [ arguments   |-> << raster >>,
                       raised      |-> FALSE,
                       environment |-> BombEnvironment_create_from_file(
                                           raster, DEFAULT_BOMB_POSITION_MARK) ]
    /\ last_call' = "create_from_file"
    /\ rng_calls' = 0
    /\ written' = None
    /\ UNCHANGED rows
    /\ UNCHANGED << parameters, agents, result_environment, pc, agent_index,
                    iteration_count, broke, num_particles_still_in_air,
                    max_iteration_count, outcome, alerted, descended, positions >>

NextEnvironment ==
    \/ NewEnvironment
    \/ CreateFromFile

SpecEnvironment == InitEnvironment /\ [][NextEnvironment]_vars

----------------------------------------------------------------------------
(* The rows of a plane by identity: create_from_size() and then increments *)
(* of cells of the environment it returned, as the density loop makes them. *)

\* Environment.create_from_size(width, height, initial_value)
CreateFromSize ==
    /\ \E width \in 1..2, height \in 1..MaxRows, initial_value \in 0..1 :
        LET created == Environment_create_from_size_rows(width, height, initial_value)
        IN  /\ rows' = created.rows
            /\ call' = [ arguments   |-> << width, height, initial_value >>,
                         raised      |-> FALSE,
                         environment |-> created.environment ]
    /\ last_call' = "create_from_size"
    /\ rng_calls' = 0
    /\ written' = None
    /\ UNCHANGED << parameters, agents, result_environment, pc, agent_index,
                    iteration_count, broke, num_particles_still_in_air,
                    max_iteration_count, outcome, alerted, descended, positions >>

\* environment.plane[y][x] += 1  on the environment create_from_size()
\* returned, while the cell is below MaxCell
PlaneIncrementCell ==
    /\ last_call \in { "create_from_size", "plane_increment" }
    /\ \E x \in 0..(call.environment.width - 1),
          y \in 0..(call.environment.height - 1) :
        /\ PlaneOf(rows, call.environment)[y + 1][x + 1] < MaxCell
        /\ rows' = PlaneIncrement_rows(rows, call.environment, x, y)
        /\ call' = [ arguments   |-> << x, y >>,
                     raised      |-> FALSE,
                     environment |-> call.environment ]
    /\ last_call' = "plane_increment"
    /\ rng_calls' = 0
    /\ written' = None
    /\ UNCHANGED << parameters, agents, result_environment, pc, agent_index,
                    iteration_count, broke, num_particles_still_in_air,
                    max_iteration_count, outcome, alerted, descended, positions >>

NextPlane ==
    \/ CreateFromSize
    \/ PlaneIncrementCell

SpecPlane == InitEnvironment /\ [][NextPlane]_vars

----------------------------------------------------------------------------
(* One agent on its own, as the unit tests build it: Agent(...), then any  *)
(* sequence of move() and fall() calls.                                     *)

TEST_POSITION == Position(1, 2)

AllParticleFallSettings ==
    { ParticleFallSettings(f[1], f[2], f[3]) :
        f \in { g \in Percentages \X Percentages \X Percentages :
                  ~ParticleFallSettings_raises(g[1], g[2], g[3]) } }

AllWindSettings ==
    { WindSettings(w[1], w[2], w[3], w[4]) :
        w \in { g \in Percentages \X Percentages \X Percentages \X Percentages :
                  ~WindSettings_raises(g[1], g[2], g[3], g[4]) } }

InitAgent ==
    /\ \E particle_fall_settings \in AllParticleFallSettings,
          wind_settings \in AllWindSettings,
          building_height \in 0..MaxBuildingHeight :
        agents = << Agent(particle_fall_settings, wind_settings,
                          TEST_POSITION, building_height) >>
    /\ parameters = None
    /\ result_environment = None
    /\ pc = "idle"
    /\ agent_index = 0
    /\ iteration_count = 0
    /\ broke = FALSE
    /\ num_particles_still_in_air = 0
    /\ max_iteration_count = 0
    /\ outcome = "none"
    /\ rng_calls = 0
    /\ written = None
    /\ rows = << >>
    /\ alerted = FALSE
    /\ last_call = "Agent"
    /\ descended = {}
    /\ call = None
    /\ positions = << >>

\* agent.move(), while the agent stays within MaxDrift of its start
AgentMove ==
    /\ \E value \in RandomValues :
        /\ Distance(Agent_move(agents[1], value).position, TEST_POSITION) <= MaxDrift
        /\ agents' = [ agents EXCEPT ![1] = Agent_move(agents[1], value) ]
    /\ rng_calls' = 1
    /\ written' = None
    /\ UNCHANGED rows
    /\ last_call' = "move"
    /\ UNCHANGED << parameters, result_environment, pc, agent_index,
                    iteration_count, broke, num_particles_still_in_air,
                    max_iteration_count, outcome, alerted,
                    descended, call, positions >>

\* agent.fall(), while the agent stays within MaxRise of its building height
AgentFall ==
    /\ \E value \in RandomValues :
        /\ Agent_fall(agents[1], value).height <= agents[1].building_height + MaxRise
        /\ agents' = [ agents EXCEPT ![1] = Agent_fall(agents[1], value) ]
        /\ descended' = IF Agent_fall(agents[1], value).height < agents[1].height
                        THEN descended \cup { 1 } ELSE descended
    /\ rng_calls' = Agent_fall_rng_calls(agents[1])
    /\ written' = None
    /\ UNCHANGED rows
    /\ last_call' = "fall"
    /\ UNCHANGED << parameters, result_environment, pc, agent_index,
                    iteration_count, broke, num_particles_still_in_air,
                    max_iteration_count, outcome, alerted, call, positions >>

NextAgent ==
    \/ AgentMove
    \/ AgentFall

SpecAgent == InitAgent /\ [][NextAgent]_vars

----------------------------------------------------------------------------
(* The settings classes on their own, as their unit tests use them: a      *)
(* constructor call with any percentages, then get_next() calls on the     *)
(* object it returned.                                                      *)

SettingsPercentages == { 0 - 10, 0, 50, 100, 110 }

InitSettings ==
    /\ call = None
    /\ parameters = None
    /\ agents = << >>
    /\ result_environment = None
    /\ pc = "idle"
    /\ agent_index = 0
    /\ iteration_count = 0
    /\ broke = FALSE
    /\ num_particles_still_in_air = 0
    /\ max_iteration_count = 0
    /\ outcome = "none"
    /\ rng_calls = 0
    /\ written = None
    /\ rows = << >>
    /\ alerted = FALSE
    /\ last_call = "none"
    /\ descended = {}
    /\ positions = << >>

\* ParticleFallSettings(up, down, no_change)
NewParticleFallSettings ==
    /\ \E up \in SettingsPercentages, down \in SettingsPercentages,
          no_change \in SettingsPercentages :
        call' = IF ParticleFallSettings_raises(up, down, no_change)
                THEN [ arguments |-> << up, down, no_change >>,
                       raised    |-> TRUE ]
                ELSE [ arguments |-> << up, down, no_change >>,
                       raised    |-> FALSE,
                       settings  |-> ParticleFallSettings(up, down, no_change) ]
    /\ last_call' = "ParticleFallSettings"
    /\ rng_calls' = 0
    /\ written' = None
    /\ UNCHANGED rows
    /\ UNCHANGED << parameters, agents, result_environment, pc, agent_index,
                    iteration_count, broke, num_particles_still_in_air,
                    max_iteration_count, outcome, alerted, descended, positions >>

\* WindSettings(north, east, south, west)
NewWindSettings ==
    /\ \E north \in SettingsPercentages, east \in SettingsPercentages,
          south \in SettingsPercentages, west \in SettingsPercentages :
        call' = IF WindSettings_raises(north, east, south, west)
                THEN [ arguments |-> << north, east, south, west >>,
                       raised    |-> TRUE ]
                ELSE [ arguments |-> << north, east, south, west >>,
                       raised    |-> FALSE,
                       settings  |-> WindSettings(north, east, south, west) ]
    /\ last_call' = "WindSettings"
    /\ rng_calls' = 0
    /\ written' = None
    /\ UNCHANGED rows
    /\ UNCHANGED << parameters, agents, result_environment, pc, agent_index,
                    iteration_count, broke, num_particles_still_in_air,
                    max_iteration_count, outcome, alerted, descended, positions >>

\* get_next() on the particle fall settings the last call built or used
ParticleFallSettingsGetNext ==
    /\ \/ last_call = "ParticleFallSettings" /\ ~call.raised
       \/ last_call = "ParticleFallSettings.get_next"
    /\ \E value \in RandomValues :
        call' = [ settings |-> call.settings,
                  value    |-> value,
                  returned |-> ParticleFallSettings_get_next(call.settings, value) ]
    /\ last_call' = "ParticleFallSettings.get_next"
    /\ rng_calls' = 1
    /\ written' = None
    /\ UNCHANGED rows
    /\ UNCHANGED << parameters, agents, result_environment, pc, agent_index,
                    iteration_count, broke, num_particles_still_in_air,
                    max_iteration_count, outcome, alerted, descended, positions >>

\* get_next() on the wind settings the last call built or used
WindSettingsGetNext ==
    /\ \/ last_call = "WindSettings" /\ ~call.raised
       \/ last_call = "WindSettings.get_next"
    /\ \E value \in RandomValues :
        call' = [ settings |-> call.settings,
                  value    |-> value,
                  returned |-> WindSettings_get_next(call.settings, value) ]
    /\ last_call' = "WindSettings.get_next"
    /\ rng_calls' = 1
    /\ written' = None
    /\ UNCHANGED rows
    /\ UNCHANGED << parameters, agents, result_environment, pc, agent_index,
                    iteration_count, broke, num_particles_still_in_air,
                    max_iteration_count, outcome, alerted, descended, positions >>

NextSettings ==
    \/ NewParticleFallSettings
    \/ NewWindSettings
    \/ ParticleFallSettingsGetNext
    \/ WindSettingsGetNext

SpecSettings == InitSettings /\ [][NextSettings]_vars

----------------------------------------------------------------------------
(* Position objects by identity.  A Position is a mutable object: move()   *)
(* assigns to the x or y of the agent's own object.  Here  positions  is   *)
(* the store of these objects, an object's identity is its index, and the  *)
(* position of an agent and the bomb_position of the environment are       *)
(* identities.                                                              *)

\* Position(x, y): a new object
Position_new(store, x, y) ==
    [ store |-> Append(store, Position(x, y)), ref |-> Len(store) + 1 ]

\* (a variant: the original object itself is handed back)
Position_create_from_shared(store, original) ==
    [ store |-> store, ref |-> original ]

\* Position.create_from(original): a new object with the x and y of original
Position_create_from_ref(store, original) ==
    Position_new(store, store[original].x, store[original].y)

\* Agent.__init__: the agent keeps a copy of start_position
Agent_new(store, fall_settings, wind_settings, start_position, building_height) ==
    LET copy == Position_create_from_ref(store, start_position)
    IN  [ store |-> copy.store,
          agent |-> [ Agent(fall_settings, wind_settings,
                            store[start_position], building_height)
                        EXCEPT !.position = copy.ref ] ]

\* Model._create_agents: the loop that appends num_of_agents agents
RECURSIVE Model_create_agents_loop(_, _, _, _)
Model_create_agents_loop(store, agent_list, params, num_of_agents) ==
    IF Len(agent_list) >= num_of_agents
    THEN [ store |-> store, agents |-> agent_list ]
    ELSE LET new == Agent_new(store, params.particle_fall_settings,
                              params.wind_settings,
                              params.environment.bomb_position,
                              params.building_height_metres)
         IN  Model_create_agents_loop(new.store, Append(agent_list, new.agent),
                                      params, num_of_agents)

\* Agent.move() on the agent's Position object
Agent_move_object(store, agent, value) ==
    [ store EXCEPT ![agent.position] =
        Agent_move([ agent EXCEPT !.position = store[agent.position] ],
                   value).position ]

NumbersOfParticles == { 1, 2 }

\* Where create_from_file put the bomb of this environment
Origin(environment) ==
    BombEnvironment_create_from_file(environment.plane,
                                     DEFAULT_BOMB_POSITION_MARK).bomb_position

\* Model.__init__ with its call of initialize(): the bomb position is the
\* first object, the agents' positions follow
InitPositions ==
    /\ \E raster \in Rasters, wind_settings \in AllWindSettings,
          num_of_particles \in NumbersOfParticles :
        LET environment == BombEnvironment_create_from_file(
                               raster, DEFAULT_BOMB_POSITION_MARK)
            bomb == Position_new(<< >>, environment.bomb_position.x,
                                 environment.bomb_position.y)
            params == Parameters(ParticleFallSettings(0, 100, 0), wind_settings,
                          [ environment EXCEPT !.bomb_position = bomb.ref ],
                          num_of_particles, MaxBuildingHeight, 1)
            created == Model_create_agents_loop(bomb.store, << >>, params,
                                                num_of_particles)
        IN  /\ parameters = params
            /\ positions = created.store
            /\ agents = created.agents
    /\ result_environment = None
    /\ pc = "idle"
    /\ agent_index = 0
    /\ iteration_count = 0
    /\ broke = FALSE
    /\ num_particles_still_in_air = 0
    /\ max_iteration_count = 0
    /\ outcome = "none"
    /\ rng_calls = 0
    /\ written = None
    /\ rows = << >>
    /\ alerted = FALSE
    /\ last_call = "Model"
    /\ descended = {}
    /\ call = None

\* Model.initialize(): a new list of agents; the objects of the old agents
\* are no longer referenced and leave the store
PositionsInitialize ==
    /\ LET created == Model_create_agents_loop(
                          SubSeq(positions, 1, 1), << >>, parameters,
                          parameters.num_of_particles)
       IN  /\ positions' = created.store
           /\ agents' = created.agents
    /\ result_environment' = None
    /\ rng_calls' = 0
    /\ written' = None
    /\ UNCHANGED rows
    /\ last_call' = "initialize"
    /\ UNCHANGED << parameters, pc, agent_index, iteration_count, broke,
                    num_particles_still_in_air, max_iteration_count, outcome,
                    alerted, descended, call >>

\* move() on one of the agents, while it stays within MaxDrift of the bomb
PositionsMove ==
    /\ \E i \in DOMAIN agents, value \in RandomValues :
        LET moved == Agent_move_object(positions, agents[i], value)
        IN  /\ Distance(moved[agents[i].position],
                        Origin(parameters.environment)) <= MaxDrift
            /\ positions' = moved
    /\ rng_calls' = 1
    /\ written' = None
    /\ UNCHANGED rows
    /\ last_call' = "move"
    /\ UNCHANGED << parameters, agents, result_environment, pc, agent_index,
                    iteration_count, broke, num_particles_still_in_air,
                    max_iteration_count, outcome, alerted, descended, call >>

NextPositions ==
    \/ PositionsInitialize
    \/ PositionsMove

SpecPositions == InitPositions /\ [][NextPositions]_vars

----------------------------------------------------------------------------
(* The loops of run() as workers.  The body of the for loop of run() is    *)
(* run for every agent by a worker of its own, with its own iteration      *)
(* count and its own draws, and the workers' iterations are taken in any   *)
(* order; then the positions are counted into the grid in any order.  In   *)
(* this specification iteration_count and broke hold one value for each    *)
(* agent, agent_index is the set of the agents counted so far, call keeps  *)
(* the draws every agent has been given, and the agents hold Position      *)
(* identities.                                                             *)

\* The values random() * 100 takes here (0.5 and 50.5)
WorkerRandomValues == { 1, 101 }

\* The while loop of run() for one agent, on the draws it is given
RECURSIVE Model_run_loop(_, _, _, _)
Model_run_loop(agent, draws, count, max_num_of_iterations) ==
    IF ~Agent_can_fall(agent) \/ draws = << >>
    THEN agent
    ELSE LET next == Agent_fall(Agent_move(agent, Head(draws)[1]), Head(draws)[2])
         IN  IF count + 1 >= max_num_of_iterations
             THEN next
             ELSE Model_run_loop(next, Tail(draws), count + 1,
                                 max_num_of_iterations)

\* Model(parameters) and run() up to the for loop
InitWorkers ==
    /\ \E raster \in Rasters,
          wind_settings \in { WindSettings(50, 50, 0, 0), WindSettings(0, 0, 50, 50) },
          fall_settings \in { ParticleFallSettings(0, 100, 0),
                              ParticleFallSettings(50, 50, 0) },
          building_height \in 1..2 :
        LET environment == BombEnvironment_create_from_file(
                               raster, DEFAULT_BOMB_POSITION_MARK)
            bomb == Position_new(<< >>, environment.bomb_position.x,
                                 environment.bomb_position.y)
            params == Parameters(fall_settings, wind_settings,
                          [ environment EXCEPT !.bomb_position = bomb.ref ],
                          2, building_height, 2)
            created == Model_create_agents_loop(bomb.store, << >>, params, 2)
        IN  /\ parameters = params
            /\ positions = created.store
            /\ agents = created.agents
    /\ result_environment = None
    /\ pc = "run"
    /\ agent_index = {}
    /\ iteration_count = << 0, 0 >>
    /\ broke = << FALSE, FALSE >>
    /\ num_particles_still_in_air = 0
    /\ max_iteration_count = 0
    /\ outcome = "none"
    /\ rng_calls = 0
    /\ written = None
    /\ rows = << >>
    /\ alerted = FALSE
    /\ last_call = "run"
    /\ descended = {}
    /\ call = [ draws |-> << << >>, << >> >> ]

\* One pass of the while loop for agent i: move(), fall(), the count and
\* the check of the iteration cap; when the loop ends with it, the maximum
\* is updated.
WorkerIterate ==
    /\ pc = "run"
    /\ \E i \in DOMAIN agents :
        /\ ~broke[i]
        /\ Agent_can_fall(agents[i])
        /\ \E wind_value \in WorkerRandomValues, fall_value \in WorkerRandomValues :
            LET fallen == Agent_fall(agents[i], fall_value)
                count == iteration_count[i] + 1
                capped == count >= parameters.max_num_of_iterations
            IN  /\ positions' = Agent_move_object(positions, agents[i], wind_value)
                /\ agents' = [ agents EXCEPT ![i] = fallen ]
                /\ rng_calls' = 1 + Agent_fall_rng_calls(agents[i])
                /\ descended' = IF fallen.height < agents[i].height
                                THEN descended \cup { i } ELSE descended
                /\ call' = [ call EXCEPT !.draws[i] =
                               Append(@, << wind_value, fall_value >>) ]
                /\ iteration_count' = [ iteration_count EXCEPT ![i] = count ]
                /\ broke' = [ broke EXCEPT ![i] = capped ]
                /\ num_particles_still_in_air' =
                     IF capped THEN num_particles_still_in_air + 1
                     ELSE num_particles_still_in_air
                /\ max_iteration_count' =
                     IF (capped \/ ~Agent_can_fall(fallen))
                        /\ count > max_iteration_count
                     THEN count ELSE max_iteration_count
    /\ written' = None
    /\ UNCHANGED rows
    /\ UNCHANGED << parameters, result_environment, pc, agent_index, outcome,
                    alerted, last_call >>

\* Every loop is over: _get_particle_density_environment() creates the grid
WorkersCreateGrid ==
    /\ pc = "run"
    /\ \A i \in DOMAIN agents : broke[i] \/ ~Agent_can_fall(agents[i])
    /\ result_environment' =
         Environment_create_from_size(parameters.environment.width,
                                      parameters.environment.height, 0)
    /\ pc' = "count"
    /\ rng_calls' = 0
    /\ written' = None
    /\ UNCHANGED rows
    /\ UNCHANGED << parameters, agents, agent_index, iteration_count, broke,
                    num_particles_still_in_air, max_iteration_count, outcome,
                    alerted, last_call, descended, call, positions >>

\* The body of the for loop of _get_particle_density_environment() for one
\* of the agents not counted yet
WorkersCount ==
    /\ pc = "count"
    /\ \E i \in DOMAIN agents \ agent_index :
        LET position == positions[agents[i].position]
        IN  /\ agent_index' = agent_index \cup { i }
            /\ IF ~Environment_contains(result_environment, position)
               THEN UNCHANGED << result_environment, pc, outcome >>
               ELSE IF PlaneIncrement_raises(result_environment.plane, position)
               THEN /\ outcome' = "raised"
                    /\ pc' = "idle"
                    /\ result_environment' = None
               ELSE /\ result_environment' =
                         [ result_environment EXCEPT !.plane =
                             PlaneIncrement(result_environment.plane, position) ]
                    /\ UNCHANGED << pc, outcome >>
    /\ rng_calls' = 0
    /\ written' = None
    /\ UNCHANGED rows
    /\ UNCHANGED << parameters, agents, iteration_count, broke,
                    num_particles_still_in_air, max_iteration_count,
                    alerted, last_call, descended, call, positions >>

\* Every agent is counted: run() stores the grid and returns it
WorkersReturn ==
    /\ pc = "count"
    /\ agent_index = DOMAIN agents
    /\ outcome' = "returned"
    /\ pc' = "idle"
    /\ rng_calls' = 0
    /\ written' = None
    /\ UNCHANGED rows
    /\ UNCHANGED << parameters, agents, result_environment, agent_index,
                    iteration_count, broke, num_particles_still_in_air,
                    max_iteration_count, alerted, last_call, descended, call,
                    positions >>

NextWorkers ==
    \/ WorkerIterate
    \/ WorkersCreateGrid
    \/ WorkersCount
    \/ WorkersReturn

SpecWorkers == InitWorkers /\ [][NextWorkers]_vars

----------------------------------------------------------------------------
(* Properties of one agent                                                 *)

\* C1: an agent created with a release height >= 0 has height >= 0 in every
\* state that move() and fall() calls reach, and can_fall() is false exactly
\* when its height is 0.
C1_HeightNeverNegative ==
    \A i \in DOMAIN agents :
        /\ agents[i].height >= 0
        /\ (~Agent_can_fall(agents[i])) <=> (agents[i].height = 0)

\* An agent released above the ground has fallen to the ground.
C1_Witness ==
    \E i \in DOMAIN agents :
        /\ agents[i].building_height > 0
        /\ agents[i].height = 0
        /\ last_call = "fall"

\* C8, as claimed: whatever is called on a grounded agent, its position and
\* its height stay as they are.
C8_GroundedAgentNeverChanges ==
    [][ \A i \in DOMAIN agents :
          agents[i].height = 0 =>
            /\ agents'[i].position = agents[i].position
            /\ agents'[i].height = agents[i].height ]_vars

\* C8, amended: a grounded agent stays grounded; fall() leaves its position
\* and height unchanged, while move() still moves it by one cell.
C8_GroundedAgentStaysGrounded ==
    [][ \A i \in DOMAIN agents :
          agents[i].height = 0 =>
            /\ agents'[i].height = 0
            /\ last_call' = "fall" => agents'[i].position = agents[i].position
            /\ last_call' = "move" =>
                 Distance(agents'[i].position, agents[i].position) = 1 ]_vars

\* move() has been called on a grounded agent (move() leaves the height as
\* it is, so the agent was on the ground when it was called).
C8_Witness ==
    \E i \in DOMAIN agents :
        /\ agents[i].height = 0
        /\ last_call = "move"
        /\ agents[i].position # TEST_POSITION

\* C9: fall() on an agent whose height is 0 changes nothing of the agent and
\* makes no call of random(), whatever the fall settings and however often.
C9_FallOnGroundIsNoOp ==
    [][ \A i \in DOMAIN agents :
          (last_call' = "fall" /\ agents[i].height = 0) =>
            /\ agents'[i] = agents[i]
            /\ rng_calls' = 0 ]_vars

\* fall() has been called on an agent built on the ground.
C9_Witness ==
    \E i \in DOMAIN agents :
        /\ agents[i].building_height = 0
        /\ agents[i].height = 0
        /\ last_call = "fall"
        /\ rng_calls = 0

\* n calls of fall(), each with the drawn value `value`
RECURSIVE FallTimes(_, _, _)
FallTimes(agent, n, value) ==
    IF n = 0 THEN agent ELSE FallTimes(Agent_fall(agent, value), n - 1, value)

\* C10: fall() on an airborne agent below its release height takes 1 off the
\* height and makes no call of random(); so an agent with
\* 0 < height < release height is on the ground after exactly `height`
\* further calls of fall(), and not before.
C10_ForcedDescent ==
    /\ [][ \A i \in DOMAIN agents :
             ( /\ last_call' = "fall"
               /\ 0 < agents[i].height
               /\ agents[i].height < agents[i].building_height ) =>
                 /\ agents'[i].height = agents[i].height - 1
                 /\ agents'[i].position = agents[i].position
                 /\ rng_calls' = 0 ]_vars
    /\ [] \A i \in DOMAIN agents :
             ( /\ 0 < agents[i].height
               /\ agents[i].height < agents[i].building_height ) =>
                 \A value \in RandomValues :
                   \A n \in 0..agents[i].height :
                     FallTimes(agents[i], n, value).height = agents[i].height - n

\* A fall() that made no draw has left the agent in the air: it took the
\* forced branch.
C10_Witness ==
    \E i \in DOMAIN agents :
        /\ last_call = "fall"
        /\ rng_calls = 0
        /\ agents[i].height > 0

\* C11, as claimed: once any fall() has decreased an agent's height, every
\* later fall() on it while it is airborne decreases its height by exactly 1.
C11_DescentIsForcedOnceBegun ==
    [][ \A i \in DOMAIN agents :
          ( /\ i \in descended
            /\ last_call' = "fall"
            /\ agents[i].height > 0 ) =>
              agents'[i].height = agents[i].height - 1 ]_vars

\* C11, amended: once a fall() has taken an agent's height below its release
\* height, every later fall() on it while it is airborne decreases its
\* height by exactly 1, and the height stays below the release height.
C11_DescentIsForcedBelowRelease ==
    /\ [][ \A i \in DOMAIN agents :
             ( /\ i \in descended
               /\ agents[i].height < agents[i].building_height
               /\ last_call' = "fall"
               /\ agents[i].height > 0 ) =>
                 agents'[i].height = agents[i].height - 1 ]_vars
    /\ [][ \A i \in DOMAIN agents :
             agents[i].height < agents[i].building_height =>
               /\ i \in descended
               /\ agents'[i].height <= agents[i].height ]_vars

\* Two falls in a row have lowered an agent that is still in the air.
C11_Witness ==
    \E i \in DOMAIN agents :
        /\ i \in descended
        /\ last_call = "fall"
        /\ agents[i].height > 0
        /\ agents[i].height = agents[i].building_height - 2

\* C12, as claimed: whenever fall() takes the sampling branch, the agent's
\* height equals its release height.
C12_SamplesOnlyAtReleaseHeight ==
    [][ \A i \in DOMAIN agents :
          (last_call' = "fall" /\ rng_calls' = 1) =>
            agents[i].height = agents[i].building_height ]_vars

\* C12, amended: whenever fall() takes the sampling branch, the agent is
\* airborne and its height is at or above its release height.
C12_SamplesOnlyAtOrAboveReleaseHeight ==
    [][ \A i \in DOMAIN agents :
          (last_call' = "fall" /\ rng_calls' = 1) =>
            /\ agents[i].height > 0
            /\ agents[i].height >= agents[i].building_height ]_vars

\* An agent that has come down to its release height from above it, the
\* last fall() having sampled: a fall() has sampled above the release height.
C12_Witness ==
    \E i \in DOMAIN agents :
        /\ i \in descended
        /\ agents[i].building_height >= 1
        /\ agents[i].height = agents[i].building_height
        /\ last_call = "fall"
        /\ rng_calls = 1

\* C13: an agent with release height H >= 1 and fall settings up = 0,
\* down = 100, no_change = 0 has height H - 1 after exactly one fall(),
\* whatever the draw.
C13_DownSettingsFallByOne ==
    [][ \A i \in DOMAIN agents :
          ( /\ last_call = "Agent"
            /\ last_call' = "fall"
            /\ agents[i].building_height >= 1
            /\ agents[i].particle_fall_settings = ParticleFallSettings(0, 100, 0) ) =>
              agents'[i].height = agents[i].building_height - 1 ]_vars

\* C14: every move() changes exactly one coordinate of the agent by exactly
\* 1 and leaves the other as it is: NORTH y + 1, EAST x + 1, SOUTH y - 1,
\* WEST x - 1; the position after move() differs from the one before.
C14_MoveChangesOneAxisByOne ==
    /\ [][ \A i \in DOMAIN agents :
             last_call' = "move" =>
               /\ agents'[i].position # agents[i].position
               /\ \/ /\ Abs(agents'[i].position.x - agents[i].position.x) = 1
                     /\ agents'[i].position.y = agents[i].position.y
                  \/ /\ Abs(agents'[i].position.y - agents[i].position.y) = 1
                     /\ agents'[i].position.x = agents[i].position.x ]_vars
    /\ [] \A i \in DOMAIN agents : \A value \in RandomValues :
             LET direction == WindSettings_get_next(agents[i].wind_settings, value)
                 before == agents[i].position
                 after == Agent_move(agents[i], value).position
             IN  /\ direction = "NORTH" => after = Position(before.x, before.y + 1)
                 /\ direction = "EAST" => after = Position(before.x + 1, before.y)
                 /\ direction = "SOUTH" => after = Position(before.x, before.y - 1)
                 /\ direction = "WEST" => after = Position(before.x - 1, before.y)

\* move() has taken an agent south of where it was created.
C14_Witness ==
    \E i \in DOMAIN agents :
        /\ last_call = "move"
        /\ agents[i].position = Position(TEST_POSITION.x, TEST_POSITION.y - 1)

----------------------------------------------------------------------------
(* Properties of run()                                                     *)

InBounds(environment, position) ==
    /\ 0 <= position.x /\ position.x < environment.width
    /\ 0 <= position.y /\ position.y < environment.height

ValidConfiguration ==
    /\ ~ParticleFallSettings_raises(
           parameters.particle_fall_settings.up_percentage,
           parameters.particle_fall_settings.down_percentage,
           parameters.particle_fall_settings.no_change_percentage)
    /\ ~WindSettings_raises(
           parameters.wind_settings.north_percentage,
           parameters.wind_settings.east_percentage,
           parameters.wind_settings.south_percentage,
           parameters.wind_settings.west_percentage)
    /\ parameters.num_of_particles >= 1
    /\ parameters.building_height_metres >= 0
    /\ parameters.max_num_of_iterations >= 1

\* C2: with a valid configuration run() never raises: whatever the draws,
\* also those that take a particle to a negative x or y, it returns a
\* density grid.
C2_RunNeverRaises ==
    [][ (pc = "run" /\ pc' = "idle" /\ ValidConfiguration) =>
          (outcome' = "returned" /\ result_environment' # None) ]_vars

\* C3: run() always terminates: the loop of every agent exits and run()
\* reaches its return.
C3_RunReachesItsReturn ==
    (pc = "run") ~> (pc = "idle" /\ outcome = "returned")

\* C4: an iteration of a particle's loop starts only while its
\* iteration_count is below max_num_of_iterations, so no particle makes more
\* than max_num_of_iterations iterations.
C4_IterationsWithinCap ==
    pc = "run" => iteration_count <= parameters.max_num_of_iterations

\* C5: every cell plane[y][x] of the returned density grid is the number of
\* agents whose final position is exactly (x, y); an agent outside the
\* bounds changes no cell.
C5_CellsCountFinalPositions ==
    result_environment # None =>
        \A y \in 0..(result_environment.height - 1) :
            \A x \in 0..(result_environment.width - 1) :
                result_environment.plane[y + 1][x + 1] =
                    Cardinality({ i \in DOMAIN agents :
                                    agents[i].position = Position(x, y) })

RECURSIVE SeqSum(_)
SeqSum(seq) == IF seq = << >> THEN 0 ELSE Head(seq) + SeqSum(Tail(seq))

PlaneSum(plane) == SeqSum([ r \in DOMAIN plane |-> SeqSum(plane[r]) ])

\* C6: the cells of the returned density grid add up to the number of
\* agents whose final position is within the bounds, which is at most the
\* number of agents.
C6_SumCountsAgentsInBounds ==
    result_environment # None =>
        /\ PlaneSum(result_environment.plane) =
             Cardinality({ i \in DOMAIN agents :
                             InBounds(result_environment, agents[i].position) })
        /\ PlaneSum(result_environment.plane) <= Len(agents)

\* C7: contains(position) is true exactly when 0 <= x < width and
\* 0 <= y < height; it is false for a negative x or y.
C7_ContainsIffInBounds ==
    \A i \in DOMAIN agents :
        Environment_contains(parameters.environment, agents[i].position)
            <=> InBounds(parameters.environment, agents[i].position)

\* C21: Model.update_parameters replaces the five configuration values and
\* changes nothing else: the agents, the result environment and the bomb
\* environment stay as they are.
C21_UpdateParametersFrame ==
    [][ last_call' = "update_parameters" =>
          /\ parameters'.particle_fall_settings = call'.arguments.particle_fall_settings
          /\ parameters'.wind_settings = call'.arguments.wind_settings
          /\ parameters'.num_of_particles = call'.arguments.num_of_particles
          /\ parameters'.building_height_metres = call'.arguments.building_height_metres
          /\ parameters'.max_num_of_iterations = call'.arguments.max_num_of_iterations
          /\ parameters'.environment = parameters.environment
          /\ agents' = agents
          /\ result_environment' = result_environment ]_vars

\* update_parameters() after a run: the result is still there, an agent is
\* where the run left it, and the number of agents is no longer the
\* configured one.
C21_Witness ==
    /\ last_call = "update_parameters"
    /\ result_environment # None
    /\ Len(agents) # parameters.num_of_particles
    /\ parameters.max_num_of_iterations = 2
    /\ \E i \in DOMAIN agents :
         agents[i].position # parameters.environment.bomb_position

----------------------------------------------------------------------------
(* Properties of the Controller handlers                                   *)

\* C22: the result density grid is present only after a run completes:
\* result_environment is None unless run() has returned since the last
\* initialize(), and save_model() writes nothing, and only alerts, when
\* result_environment is None.
C22_ResultOnlyAfterRun ==
    /\ [] (result_environment # None => (pc = "idle" /\ outcome = "returned"))
    /\ [][ (result_environment = None /\ result_environment' # None) =>
             (pc = "run" /\ pc' = "idle" /\ outcome' = "returned") ]_vars
    /\ [][ ( \/ pc = "idle" /\ pc' = "run"
             \/ last_call' = "load_parameters" /\ ~alerted' ) =>
               result_environment' = None ]_vars
    /\ [][ (last_call' = "save_model" /\ result_environment = None) =>
             (alerted' /\ written' = None) ]_vars

\* save_model() has alerted and written nothing: a run had returned a
\* result, and loading parameters has since initialized the model.
C22_Witness ==
    /\ last_call = "save_model"
    /\ outcome = "returned"
    /\ result_environment = None
    /\ alerted
    /\ written = None

C24_ResultIsBuiltAfresh ==
    /\ [][ (pc = "run" /\ pc' = "idle" /\ outcome' = "returned") =>
             /\ result_environment'.width = parameters.environment.width
             /\ result_environment'.height = parameters.environment.height
             /\ Len(result_environment'.plane) = parameters.environment.height
             /\ \A r \in DOMAIN result_environment'.plane :
                  /\ Len(result_environment'.plane[r]) = parameters.environment.width
                  /\ \A k \in DOMAIN result_environment'.plane[r] :
                       result_environment'.plane[r][k] >= 0
             /\ PlaneSum(result_environment'.plane) =
                  Cardinality({ i \in DOMAIN agents :
                      Environment_contains(parameters.environment,
                                           agents[i].position) }) ]_vars
    /\ [][ parameters'.environment = parameters.environment ]_vars

\* A run has returned a grid in which both of its two agents are counted.
C24_Witness ==
    /\ last_call = "run_model"
    /\ pc = "idle"
    /\ outcome = "returned"
    /\ Len(agents) = 2
    /\ result_environment # None
    /\ PlaneSum(result_environment.plane) = 2

\* A text that is not a positive integer
NotPositiveInteger(text) == int_raises(text) \/ int(text) <= 0

\* A text that is not an integer >= 0
NotNonNegativeInteger(text) == int_raises(text) \/ int(text) < 0

\* C25: the configuration is rejected, and the model left as it is, whenever
\* the number of particles is not a positive integer, the maximum number of
\* iterations is not a positive integer, or the release height is negative.
C25_NonPositiveCountsRejected ==
    [][ ( /\ last_call' = "load_parameters"
          /\ \/ NotPositiveInteger(call'.entries.num_of_particles)
             \/ NotPositiveInteger(call'.entries.max_num_of_iterations)
             \/ NotNonNegativeInteger(call'.entries.building_height_metres) ) =>
            /\ alerted'
            /\ ~call'.returned
            /\ parameters' = parameters
            /\ agents' = agents
            /\ result_environment' = result_environment ]_vars

\* A text that is not an integer from 0 to 100
BadPercentage(text) == int_raises(text) \/ int(text) < 0 \/ int(text) > 100

\* Entries with a bad percentage, a bad count, a bad height or percentages
\* that do not add up to 100
BadEntries(entries) ==
    \/ \E i \in 1..4 : BadPercentage(entries.wind[i])
    \/ \E i \in 1..3 : BadPercentage(entries.fall[i])
    \/ NotNonNegativeInteger(entries.num_of_particles)
    \/ NotNonNegativeInteger(entries.max_num_of_iterations)
    \/ NotNonNegativeInteger(entries.building_height_metres)
    \/ int(entries.wind[1]) + int(entries.wind[2]) + int(entries.wind[3])
         + int(entries.wind[4]) # 100
    \/ int(entries.fall[1]) + int(entries.fall[2]) + int(entries.fall[3]) # 100

\* C26: configuration changes are validated before anything is committed:
\* whenever update_parameters() raises (a bad percentage, count or height,
\* or a sum other than 100), load_parameters() alerts and returns False, and
\* the parameters, the agents and the result environment are unchanged.
C26_RejectedEntriesChangeNothing ==
    [][ (last_call' = "load_parameters" /\ BadEntries(call'.entries)) =>
          /\ alerted'
          /\ ~call'.returned
          /\ parameters' = parameters
          /\ agents' = agents
          /\ result_environment' = result_environment ]_vars

\* Wind percentages that add up to 50 have been refused after a run: the
\* result of the run and its agents are still there.
C26_Witness ==
    /\ last_call = "load_parameters"
    /\ call.entries.wind = << "50", "0", "0", "0" >>
    /\ ~call.returned
    /\ alerted
    /\ result_environment # None
    /\ \E i \in DOMAIN agents :
         agents[i].position # parameters.environment.bomb_position

----------------------------------------------------------------------------
(* Properties of the settings classes                                      *)

\* C15: constructing WindSettings or ParticleFallSettings raises whenever
\* the percentages do not add up to exactly 100, below or above, and
\* succeeds, storing each percentage as given, whenever they do.
C15_SumDecidesConstruction ==
    /\ last_call \in { "ParticleFallSettings", "WindSettings" } =>
          (call.raised <=> SeqSum(call.arguments) # 100)
    /\ (last_call = "ParticleFallSettings" /\ ~call.raised) =>
          << call.settings.up_percentage, call.settings.down_percentage,
             call.settings.no_change_percentage >> = call.arguments
    /\ (last_call = "WindSettings" /\ ~call.raised) =>
          << call.settings.north_percentage, call.settings.east_percentage,
             call.settings.south_percentage, call.settings.west_percentage >>
            = call.arguments

\* A constructor has refused percentages that add up to less than 100.
C15_Witness ==
    /\ last_call = "ParticleFallSettings"
    /\ call.raised
    /\ SeqSum(call.arguments) < 100
    /\ \A i \in DOMAIN call.arguments : call.arguments[i] >= 0

\* C16: constructing WindSettings or ParticleFallSettings fails whenever a
\* percentage is negative, also when the percentages add up to 100.
C16_NegativePercentageRaises ==
    last_call \in { "ParticleFallSettings", "WindSettings" } =>
        ((\E i \in DOMAIN call.arguments : call.arguments[i] < 0) => call.raised)

\* The percentages of a settings object and its categories, in declared order
PercentagesOf(settings) ==
    IF "up_percentage" \in DOMAIN settings
    THEN << settings.up_percentage, settings.down_percentage,
            settings.no_change_percentage >>
    ELSE << settings.north_percentage, settings.east_percentage,
            settings.south_percentage, settings.west_percentage >>

CategoriesOf(settings) ==
    IF "up_percentage" \in DOMAIN settings
    THEN << "UP", "DOWN", "NONE" >>
    ELSE << "NORTH", "EAST", "SOUTH", "WEST" >>

\* The sum of the percentages up to and including category i
CumulativeThreshold(settings, i) == SeqSum(SubSeq(PercentagesOf(settings), 1, i))

\* The first category whose cumulative threshold is >= the drawn value (in
\* half-percent units), the last category when there is none before it
FirstCategory(settings, value) ==
    LET n == Len(CategoriesOf(settings))
        matching == { i \in 1..(n - 1) :
                        value <= 2 * CumulativeThreshold(settings, i) }
    IN  IF matching = {} THEN CategoriesOf(settings)[n]
        ELSE CategoriesOf(settings)[CHOOSE i \in matching :
                                      \A j \in matching : i <= j]

C18_CertainCategoryAlwaysReturned ==
    last_call \in { "ParticleFallSettings.get_next", "WindSettings.get_next" } =>
        \A i \in DOMAIN PercentagesOf(call.settings) :
            ( /\ PercentagesOf(call.settings)[i] = 100
              /\ \A j \in DOMAIN PercentagesOf(call.settings) :
                    j # i => PercentagesOf(call.settings)[j] = 0 ) =>
                call.returned = CategoriesOf(call.settings)[i]

----------------------------------------------------------------------------
(* Properties of initialize() and of the Position objects                  *)

\* C19: after initialize(), whenever it is called, the model holds exactly
\* num_of_particles agents, each at the bomb position of the environment,
\* with height and release height building_height_metres and with the wind
\* and fall settings of the parameters.
C19_InitializeCreatesTheAgents ==
    [][ ( \/ pc = "idle" /\ pc' = "run"
          \/ last_call' = "load_parameters" /\ ~alerted' ) =>
            /\ Len(agents') = parameters'.num_of_particles
            /\ \A i \in DOMAIN agents' :
                 /\ agents'[i].position = parameters'.environment.bomb_position
                 /\ agents'[i].height = parameters'.building_height_metres
                 /\ agents'[i].building_height = parameters'.building_height_metres
                 /\ agents'[i].wind_settings = parameters'.wind_settings
                 /\ agents'[i].particle_fall_settings =
                      parameters'.particle_fall_settings ]_vars

\* initialize() has run after a run that moved the agents and after new
\* parameters were loaded: two agents above the ground at the bomb position.
C19_Witness ==
    /\ outcome = "returned"
    /\ last_call = "load_parameters"
    /\ ~alerted
    /\ Len(agents) = 2
    /\ parameters.building_height_metres = 2
    /\ \A i \in DOMAIN agents :
         /\ agents[i].position = parameters.environment.bomb_position
         /\ agents[i].height = 2

\* C20: positions are never aliased: the position of every agent is an
\* object of its own, created with the x and y of the bomb position, and a
\* move() of one agent changes neither the bomb position of the environment
\* nor the position of any other agent.
C20_PositionsNeverAliased ==
    /\ [] /\ \A i \in DOMAIN agents :
               /\ agents[i].position # parameters.environment.bomb_position
               /\ \A j \in DOMAIN agents :
                    i # j => agents[i].position # agents[j].position
          /\ positions[parameters.environment.bomb_position] =
               Origin(parameters.environment)
          /\ last_call \in { "Model", "initialize" } =>
               \A i \in DOMAIN agents :
                 positions[agents[i].position] =
                   positions[parameters.environment.bomb_position]
    /\ [][ last_call' = "move" =>
             /\ positions'[parameters.environment.bomb_position] =
                  positions[parameters.environment.bomb_position]
             /\ \E i \in DOMAIN agents :
                  /\ positions'[agents[i].position] # positions[agents[i].position]
                  /\ \A j \in DOMAIN agents :
                       j # i => positions'[agents[j].position] =
                                  positions[agents[j].position] ]_vars

\* One of two agents has been moved away from the bomb position; the other
\* is still there.
C20_Witness ==
    /\ Len(agents) = 2
    /\ last_call = "move"
    /\ positions[agents[1].position] # positions[parameters.environment.bomb_position]
    /\ positions[agents[2].position] = positions[parameters.environment.bomb_position]

----------------------------------------------------------------------------
(* Properties of the environment classes                                   *)

\* C27: for every raster that holds the mark, in any row, the bomb position
\* that create_from_file produces lies inside the grid.
C27_BombPositionInsideGrid ==
    (last_call = "create_from_file" /\ ~call.raised) =>
        InBounds(call.environment, call.environment.bomb_position)

\* The number of cells of a raster that hold the mark
MarkCount(raster) ==
    SeqSum([ r \in DOMAIN raster |->
               Cardinality({ k \in DOMAIN raster[r] :
                               raster[r][k] = DEFAULT_BOMB_POSITION_MARK }) ])

\* C28: create_from_file raises when no cell of the raster holds the mark
\* and when more than one does; it succeeds only when exactly one does.
C28_ExactlyOneMarkAccepted ==
    last_call = "create_from_file" =>
        (call.raised <=> MarkCount(call.arguments[1]) # 1)

\* C29: every Environment that construction accepts is rectangular with
\* positive size: height rows, width > 0, every row of length width.
C29_AcceptedPlaneIsRectangular ==
    ( /\ last_call = "Environment"
      /\ ~call.raised
      /\ \A r \in DOMAIN call.arguments[1].items :
           isinstance_list(call.arguments[1].items[r]) ) =>
        /\ call.environment.height = Len(call.arguments[1].items)
        /\ call.environment.width > 0
        /\ \A r \in DOMAIN call.arguments[1].items :
             Len(call.arguments[1].items[r].items) = call.environment.width

\* C30: Environment(plane) raises whenever plane is not a list, is empty or
\* has an element, the first or a later one, that is not a list.
C30_NotTwoDimensionalRaises ==
    last_call = "Environment" =>
        ( ( \/ ~isinstance_list(call.arguments[1])
            \/ call.arguments[1].items = << >>
            \/ \E r \in DOMAIN call.arguments[1].items :
                 ~isinstance_list(call.arguments[1].items[r]) ) => call.raised )

\* C31: create_from_size(w, h, v) returns an environment of width w and
\* height h whose every cell is v, and its rows are independent objects:
\* plane[y][x] += 1 adds 1 to that cell and changes no other cell.
C31_CreateFromSizeRowsIndependent ==
    [][ /\ last_call' = "create_from_size" =>
            /\ call'.environment.width = call'.arguments[1]
            /\ call'.environment.height = call'.arguments[2]
            /\ PlaneOf(rows', call'.environment) =
                 [ r \in 1..call'.arguments[2] |->
                     [ c \in 1..call'.arguments[1] |-> call'.arguments[3] ] ]
        /\ last_call' = "plane_increment" =>
            \A r \in 1..call.environment.height, c \in 1..call.environment.width :
                PlaneOf(rows', call.environment)[r][c] =
                    PlaneOf(rows, call.environment)[r][c]
                    + (IF << c - 1, r - 1 >> = call'.arguments THEN 1 ELSE 0) ]_vars

\* a cell of an environment of two rows or more was incremented twice
C31_Witness ==
    /\ last_call = "plane_increment"
    /\ call.environment.height >= 2
    /\ call.environment.width >= 2
    /\ \E r \in 1..call.environment.height, c \in 1..call.environment.width :
         /\ PlaneOf(rows, call.environment)[r][c] = 2
         /\ \E q \in 1..call.environment.height :
              q # r /\ PlaneOf(rows, call.environment)[q][c] = 0

----------------------------------------------------------------------------
(* Properties of whole runs                                                *)

\* The raster of three columns and two rows with the mark at column 1 of
\* row 0, one particle released at height 1, fall settings down = 100 and
\* wind settings north = 100
C32_Configuration ==
    /\ parameters.environment =
         BombEnvironment_create_from_file(<< <<0, 255, 0>>, <<0, 0, 0>> >>,
                                          DEFAULT_BOMB_POSITION_MARK)
    /\ parameters.particle_fall_settings = ParticleFallSettings(0, 100, 0)
    /\ parameters.wind_settings = WindSettings(100, 0, 0, 0)
    /\ parameters.num_of_particles = 1
    /\ parameters.building_height_metres = 1
    /\ parameters.max_num_of_iterations >= 1

\* The grid that counts one particle one step north of the bomb position
C32_ExpectedPlane ==
    LET environment == parameters.environment
        north == Position(environment.bomb_position.x,
                          environment.bomb_position.y + 1)
    IN  [ r \in 1..environment.height |->
            [ c \in 1..environment.width |->
                IF InBounds(environment, north)
                   /\ r = north.y + 1 /\ c = north.x + 1
                THEN 1 ELSE 0 ] ]

\* C32: end to end, with that configuration run() grounds the particle
\* after exactly one iteration, and the grid it returns holds 1 in the cell
\* one step north of the bomb position and 0 everywhere else (0 everywhere
\* when that cell is not in the grid).
C32_EndToEnd ==
    C32_Configuration =>
        /\ (pc = "run" /\ agent_index > Len(agents)) =>
               /\ agents[1].height = 0
               /\ max_iteration_count = 1
               /\ agents[1].position =
                    Position(parameters.environment.bomb_position.x,
                             parameters.environment.bomb_position.y + 1)
        /\ (pc = "idle" /\ last_call = "run_model" /\ outcome = "returned") =>
               result_environment.plane = C32_ExpectedPlane

\* What the sequential loop of run() makes of agent i on the draws agent i
\* has been given
C33_Alone(i) ==
    Model_run_loop(
        Agent(parameters.particle_fall_settings, parameters.wind_settings,
              Origin(parameters.environment), parameters.building_height_metres),
        call.draws[i], 0, parameters.max_num_of_iterations)

\* C33: particles are independent: in whatever order the iterations of the
\* particles are taken and their positions counted, the position and the
\* height of every particle are those the sequential loop of run() gives it
\* on the particle's own draws, and the grid returned is the grid of the
\* sequential loop.
C33_ParticlesIndependent ==
    /\ \A i \in DOMAIN agents :
         /\ positions[agents[i].position] = C33_Alone(i).position
         /\ agents[i].height = C33_Alone(i).height
    /\ pc = "idle" =>
         LET density == Model_get_particle_density_environment(
                            parameters, [ i \in DOMAIN agents |-> C33_Alone(i) ])
         IN  IF density.raised
             THEN outcome = "raised"
             ELSE /\ outcome = "returned"
                  /\ result_environment = density.environment

\* Both particles have made two iterations and ended at different
\* positions, and the grid that counts them has been returned
C33_Witness ==
    /\ pc = "idle"
    /\ outcome = "returned"
    /\ iteration_count = << 2, 2 >>
    /\ positions[agents[1].position] # positions[agents[2].position]
    /\ PlaneSum(result_environment.plane) >= 1

\* C34: move() changes only the position of the agent and fall() only its
\* height; in every step of run() the building height of every agent and
\* the percentages and thresholds of the settings, those of the parameters
\* and those the agents hold, stay as they are.
C34_MoveAndFallFrame ==
    /\ [] \A i \in DOMAIN agents, value \in RandomValues :
            /\ Agent_move(agents[i], value) =
                 [ agents[i] EXCEPT !.position = Agent_move(agents[i], value).position ]
            /\ Agent_fall(agents[i], value) =
                 [ agents[i] EXCEPT !.height = Agent_fall(agents[i], value).height ]
    /\ [][ (pc = "run" /\ pc' = "run") =>
             /\ parameters' = parameters
             /\ DOMAIN agents' = DOMAIN agents
             /\ \A i \in DOMAIN agents :
                  /\ agents'[i].building_height = agents[i].building_height
                  /\ agents'[i].particle_fall_settings = agents[i].particle_fall_settings
                  /\ agents'[i].wind_settings = agents[i].wind_settings
                  /\ agents'[i].particle_fall_settings = parameters.particle_fall_settings
                  /\ agents'[i].wind_settings = parameters.wind_settings
                  /\ i # agent_index => agents'[i] = agents[i] ]_vars

\* An iteration of run() has moved the second agent and taken it to the
\* ground
C34_Witness ==
    /\ pc = "run"
    /\ agent_index = 2
    /\ iteration_count = 2
    /\ agents[2].height = 0
    /\ agents[2].building_height = 2
    /\ agents[2].position # parameters.environment.bomb_position

\* C35: in run(), also when run() is called again without initialize(), the
\* position of an agent never changes once its height is 0, so that the grid
\* counts a grounded agent at the position where it landed.
C35_GroundedPositionIsFinal ==
    /\ [][ last_call' # "initialize" =>
             \A i \in DOMAIN agents :
                agents[i].height = 0 =>
                    /\ i \in DOMAIN agents'
                    /\ agents'[i].position = agents[i].position
                    /\ agents'[i].height = 0 ]_vars
    /\ [][ (pc = "run" /\ pc' = "idle" /\ outcome' = "returned") =>
             \A i \in DOMAIN agents :
                (agents[i].height = 0 /\ InBounds(parameters.environment, agents[i].position)) =>
                    result_environment'.plane[agents[i].position.y + 1]
                                             [agents[i].position.x + 1] >= 1 ]_vars

\* run() was called again on grounded agents that an earlier run() had
\* moved, and its loops are over without an iteration
C35_Witness ==
    /\ last_call = "run"
    /\ pc = "run"
    /\ agent_index > Len(agents)
    /\ max_iteration_count = 0
    /\ \A i \in DOMAIN agents : agents[i].height = 0
    /\ \E i \in DOMAIN agents :
         agents[i].position # parameters.environment.bomb_position

\* The grid that counts num_of_particles at the bomb position
C36_ExpectedPlane ==
    LET environment == parameters.environment
    IN  [ r \in 1..environment.height |->
            [ c \in 1..environment.width |->
                IF r = environment.bomb_position.y + 1
                   /\ c = environment.bomb_position.x + 1
                THEN parameters.num_of_particles ELSE 0 ] ]

\* C36: with release height 0 run() makes no iteration and no draw for any
\* agent: every agent stays at the bomb position, and when the bomb position
\* is inside the grid the grid returned holds num_of_particles in that cell
\* and 0 in every other cell.
C36_ReleaseHeightZero ==
    parameters.building_height_metres = 0 =>
        /\ pc = "run" =>
             /\ \A i \in DOMAIN agents :
                  /\ agents[i].position = parameters.environment.bomb_position
                  /\ agents[i].height = 0
             /\ Len(agents) = parameters.num_of_particles
             /\ iteration_count = 0
             /\ max_iteration_count = 0
             /\ num_particles_still_in_air = 0
             /\ rng_calls = 0
        /\ (pc = "idle" /\ last_call = "run_model"
            /\ InBounds(parameters.environment, parameters.environment.bomb_position)) =>
             /\ outcome = "returned"
             /\ result_environment.plane = C36_ExpectedPlane

\* run() has returned the grid for two particles released at height 0
C36_Witness ==
    /\ parameters.building_height_metres = 0
    /\ parameters.num_of_particles = 2
    /\ pc = "idle"
    /\ last_call = "run_model"
    /\ outcome = "returned"
    /\ PlaneSum(result_environment.plane) = 2

C38_ConfiguredAgents ==
    [ i \in 1..parameters.num_of_particles |->
        [ particle_fall_settings |-> parameters.particle_fall_settings,
          wind_settings          |-> parameters.wind_settings,
          position               |-> parameters.environment.bomb_position,
          building_height        |-> parameters.building_height_metres,
          height                 |-> parameters.building_height_metres ] ]

\* C38: run_model() always initializes the model before it runs it:
\* whatever handlers ran before, the run starts from num_of_particles agents
\* at the bomb position and at the release height with the settings of the
\* parameters as they are now, the parameters stay as they are until the run
\* is over, and the grid displayed counts exactly those agents.
C38_RunModelInitializesFirst ==
    /\ [][ (pc = "idle" /\ pc' = "run") =>
             /\ parameters' = parameters
             /\ agents' = C38_ConfiguredAgents ]_vars
    /\ [][ pc = "run" =>
             /\ parameters' = parameters
             /\ Len(agents') = parameters.num_of_particles
             /\ \A i \in DOMAIN agents' :
                  /\ agents'[i].building_height = parameters.building_height_metres
                  /\ agents'[i].particle_fall_settings = parameters.particle_fall_settings
                  /\ agents'[i].wind_settings = parameters.wind_settings ]_vars
    /\ [][ (pc = "run" /\ pc' = "idle" /\ outcome' = "returned") =>
             result_environment' =
                 Model_get_particle_density_environment(parameters, agents).environment ]_vars

\* run_model() has displayed the grid of two particles released at height 2
\* with the second of the wind settings
C38_Witness ==
    /\ pc = "idle"
    /\ last_call = "run_model"
    /\ outcome = "returned"
    /\ parameters.num_of_particles = 2
    /\ parameters.building_height_metres = 2
    /\ parameters.wind_settings = WindSettings(0, 0, 50, 50)
    /\ Len(agents) = 2
    /\ \A i \in DOMAIN agents : agents[i].height = 0

\* C39: after k iterations of the loop of run() for an agent released at the
\* bomb position at height H, the agent is at most k steps away from the
\* bomb position, by a number of steps of the parity of k, and its height is
\* at least H - k; so an agent on the ground has made at least H iterations.
C39_DistanceAndHeightBounds ==
    (pc = "run" /\ agent_index <= Len(agents)) =>
        LET agent == agents[agent_index]
            steps == Distance(agent.position, parameters.environment.bomb_position)
        IN  /\ steps <= iteration_count
            /\ (iteration_count - steps) % 2 = 0
            /\ agent.height >= parameters.building_height_metres - iteration_count
            /\ agent.height = 0 =>
                 iteration_count >= parameters.building_height_metres

\* An agent released at height 2 is on the ground after two iterations, back
\* at the bomb position
C39_Witness ==
    /\ pc = "run"
    /\ agent_index <= Len(agents)
    /\ parameters.building_height_metres = 2
    /\ iteration_count = 2
    /\ agents[agent_index].height = 0
    /\ agents[agent_index].position = parameters.environment.bomb_position

====
